---- MODULE Spec2Model ----
\* Model of the ContextFlow backend: the SimpleVectorStore index
\* (backend/app/vector_store.py), the PDF ingestion that feeds it
\* (backend/app/pdf_processing.py) and the request handlers that drive both
\* (backend/app/routes.py, backend/app/api_key_manager.py).
EXTENDS Integers, Sequences, FiniteSets, TLC

\* ---------------------------------------------------------------------------
\* Bounds of the model
\* ---------------------------------------------------------------------------
MaxBatch == 2      \* files per upload request
MaxDocs == 3       \* documents recorded in the store
MaxChunks == 4     \* chunks held in the store
MaxK == 2          \* largest k / k_sections / k_chunks passed to a search
MaxSpans == 3      \* extractions the provider returns for one document
MaxTurns == 3      \* conversation entries held by the conversation manager
MaxAdds == 102     \* add_conversation calls between two clear_history calls

\* ---------------------------------------------------------------------------
\* Program constants
\* ---------------------------------------------------------------------------
FetchK == 20       \* similarity_search_with_score(query, k=20)
DefaultKSections == 2  \* search(): hierarchical_search(query, k_sections=2, ...)
MaxConversations == 100  \* add_conversation keeps the last 100 entries

NoTitle == ""      \* a missing / None / empty section title (falsy in Python)
NoKey == "None"    \* config.GOOGLE_API_KEY is None
Keys == {"k1", "k2"}
Titles == {"A", "B"}
Queries == {1, 3}  \* query texts, identified by the seed of their embedding
Handlers == {1, 2} \* request handlers that may be in flight on the server

\* ---------------------------------------------------------------------------
\* Generic helpers
\* ---------------------------------------------------------------------------
RECURSIVE SumSeq(_)
SumSeq(s) == IF s = <<>> THEN 0 ELSE Head(s) + SumSeq(Tail(s))

IsPrefix(s, t) == Len(s) <= Len(t) /\ SubSeq(t, 1, Len(s)) = s

Range(s) == {s[i] : i \in 1..Len(s)}

RECURSIVE SeqsUpTo(_, _)
SeqsUpTo(S, n) ==
    IF n = 0 THEN {<<>>}
    ELSE LET shorter == SeqsUpTo(S, n - 1)
         IN shorter \cup {Append(s, x) : s \in {t \in shorter : Len(t) = n - 1}, x \in S}

\* ---------------------------------------------------------------------------
\* pdf_processing.py: the provider's extractions and the files of a request
\* ---------------------------------------------------------------------------
\* A text is the sequence of its characters; offsets count from 0.
Whitespace == {" "}

\* the text of the uploaded documents of the model
Text == <<"a", "b", " ", "c", " ", "d", "e", " ">>

\* text[start:end] for offsets start, end >= 0
Slice(text, start, end) ==
    SubSeq(text, start + 1, IF end < Len(text) THEN end ELSE Len(text))

\* str.strip()
RECURSIVE LStrip(_)
LStrip(text) ==
    IF text # <<>> /\ Head(text) \in Whitespace THEN LStrip(Tail(text)) ELSE text

RECURSIVE RStrip(_)
RStrip(text) ==
    IF text # <<>> /\ text[Len(text)] \in Whitespace
    THEN RStrip(SubSeq(text, 1, Len(text) - 1))
    ELSE text

Strip(text) == RStrip(LStrip(text))

\* One lx.data.Extraction: its class, its char_interval, its extraction_text
\* (the text of the span), the "title" and "parent" attributes and whether
\* the provider filled in attributes at all (attributes is None otherwise,
\* and .get on it raises).
Span(cls, start, end, text, title, parent, attrs) ==
    [extraction_class |-> cls, start_pos |-> start, end_pos |-> end,
     extraction_text |-> Slice(text, start, end),
     title |-> title, parent |-> parent, has_attributes |-> attrs]

\* an extraction of two characters of Text, without parent
Extraction(cls, start, title, attrs) ==
    Span(cls, start, start + 2, Text, title, NoTitle, attrs)

\* An uploaded file together with what the collaborators do on it:
\*   status "ok"        text extracted, lx.extract returned `extractions`
\*          "no_text"   the extracted text is blank (`continue`)
\*          "lx_error"  get_pdf_text or lx.extract raised (`except`, `continue`)
File(name, status, extractions) ==
    [filename |-> name, status |-> status, text |-> Text, extractions |-> extractions]

Files ==
    { File("ab.pdf", "ok", << Extraction("section", 0, "A", TRUE),
                              Extraction("section", 5, "B", TRUE) >>),
      File("mixed.pdf", "ok", << Extraction("section", 5, "A", TRUE),
                                 Extraction("note", 2, NoTitle, TRUE),
                                 Extraction("section", 0, NoTitle, TRUE) >>),
      File("flat.pdf", "ok", << >>),
      File("badattr.pdf", "ok", << Extraction("section", 0, "B", TRUE),
                                   Extraction("section", 3, "A", FALSE) >>),
      File("blank.pdf", "no_text", << >>),
      File("big.pdf", "lx_error", << >>) }

\* a sort that puts an extraction before those that start where it starts
RECURSIVE InsertBeforeTies(_, _)
InsertBeforeTies(sorted, e) ==
    IF sorted = <<>> THEN <<e>>
    ELSE IF Head(sorted).start_pos < e.start_pos
         THEN <<Head(sorted)>> \o InsertBeforeTies(Tail(sorted), e)
         ELSE <<e>> \o sorted

\* sorted(result.extractions, key=lambda e: e.char_interval.start_pos):
\* a stable sort, written as an insertion sort.
RECURSIVE InsertByStart(_, _)
InsertByStart(sorted, e) ==
    IF sorted = <<>> THEN <<e>>
    ELSE IF Head(sorted).start_pos <= e.start_pos
         THEN <<Head(sorted)>> \o InsertByStart(Tail(sorted), e)
         ELSE <<e>> \o sorted

RECURSIVE SortedExtractions(_)
SortedExtractions(extractions) ==
    IF extractions = <<>> THEN <<>>
    ELSE InsertByStart(SortedExtractions(SubSeq(extractions, 1, Len(extractions) - 1)),
                       extractions[Len(extractions)])

\* The loop over sorted_extractions that builds the chunks of one document.
\* i is the zero-based enumerate index; the result is the chunk list, or
\* raised = TRUE when attributes.get raised on an extraction without
\* attributes.  Chunk ids are fresh (uuid4): idBase + number built so far.
\* content is f"{section_title}\n\n{section_content}", written as the pair.
RECURSIVE BuildChunks(_, _, _, _, _, _, _)
BuildChunks(text, sorted, i, filename, doc_id, idBase, acc) ==
    IF i >= Len(sorted) THEN [raised |-> FALSE, chunks |-> acc]
    ELSE LET extraction == sorted[i + 1]
             start_pos == extraction.end_pos
             end_pos == IF i + 1 < Len(sorted) THEN sorted[i + 2].start_pos ELSE Len(text)
             section_content == Strip(Slice(text, start_pos, end_pos))
         IN IF extraction.extraction_class = "section"
            THEN IF ~extraction.has_attributes
                 THEN [raised |-> TRUE, chunks |-> acc]
                 ELSE BuildChunks(text, sorted, i + 1, filename, doc_id, idBase,
                          Append(acc, [id |-> idBase + Len(acc),
                                       document_id |-> doc_id,
                                       content |-> [section_title |-> extraction.extraction_text,
                                                    section_content |-> section_content],
                                       chunk_index |-> i,
                                       filename |-> filename,
                                       parent_section |-> extraction.parent,
                                       section_title |-> extraction.title,
                                       source_grounding |-> extraction.extraction_text]))
            ELSE BuildChunks(text, sorted, i + 1, filename, doc_id, idBase, acc)

\* counts every extraction, also those of other classes
ChunkCountAllSpans(chunks, sorted) == Len(sorted)

\* doc_metadata.chunk_count = len(chunks)
ChunkCount(chunks, sorted) == Len(chunks)

\* a file that fails takes the documents processed before it down with it
ProcessFileFailsBatch(file, all_documents, all_chunks, nextFree) ==
    LET drop == [documents |-> <<>>, chunks |-> <<>>, nextFree |-> nextFree]
    IN IF file.status # "ok" THEN drop
       ELSE LET doc_id == nextFree
                sorted == SortedExtractions(file.extractions)
                built == BuildChunks(file.text, sorted, 0, file.filename, doc_id, nextFree + 1, <<>>)
            IN IF built.raised THEN drop
               ELSE [documents |-> Append(all_documents,
                                     [id |-> doc_id, filename |-> file.filename,
                                      chunk_count |-> ChunkCount(built.chunks, sorted)]),
                     chunks |-> all_chunks \o built.chunks,
                     nextFree |-> nextFree + 1 + Len(built.chunks)]

\* One iteration of `for file in files`: the try body and its except/continue.
\* Returns the new (all_documents, all_chunks, next fresh id).
ProcessFile(file, all_documents, all_chunks, nextFree) ==
    LET skip == [documents |-> all_documents, chunks |-> all_chunks, nextFree |-> nextFree]
    IN IF file.status # "ok" THEN skip
       ELSE LET doc_id == nextFree
                sorted == SortedExtractions(file.extractions)
                built == BuildChunks(file.text, sorted, 0, file.filename, doc_id, nextFree + 1, <<>>)
            IN IF built.raised THEN skip
               ELSE [documents |-> Append(all_documents,
                                     [id |-> doc_id, filename |-> file.filename,
                                      chunk_count |-> ChunkCount(built.chunks, sorted)]),
                     chunks |-> all_chunks \o built.chunks,
                     nextFree |-> nextFree + 1 + Len(built.chunks)]

RECURSIVE ProcessLoop(_, _, _, _)
ProcessLoop(files, all_documents, all_chunks, nextFree) ==
    IF files = <<>> THEN [documents |-> all_documents, chunks |-> all_chunks, nextFree |-> nextFree]
    ELSE LET r == ProcessFile(Head(files), all_documents, all_chunks, nextFree)
         IN ProcessLoop(Tail(files), r.documents, r.chunks, r.nextFree)

process_multiple_pdfs(files, nextFree) == ProcessLoop(files, <<>>, <<>>, nextFree)

\* ---------------------------------------------------------------------------
\* vector_store.py: SimpleVectorStore
\* ---------------------------------------------------------------------------
\* self.vector_store: None, or a FAISS index holding one record per embedded
\* text, in insertion order.
NoFaiss == [init |-> FALSE, docs |-> <<>>]

EmptyDict == [t \in {} |-> <<>>]

\* SimpleVectorStore.__init__
NewStore ==
    [documents |-> <<>>, chunks |-> <<>>, embeddings |-> NoKey,
     vector_store |-> NoFaiss, section_titles |-> {}, section_to_chunks |-> EmptyDict]

\* a reset that starts a new store
ResetDropsChunks(self) == NewStore

\* a reset that leaves the set of section titles in place
ResetKeepsTitles(self) ==
    [self EXCEPT !.embeddings = NoKey, !.vector_store = NoFaiss,
                 !.section_to_chunks = EmptyDict]

\* a reset that leaves the backend index in place
ResetKeepsBackend(self) ==
    [self EXCEPT !.embeddings = NoKey, !.section_titles = {}, !.section_to_chunks = EmptyDict]

\* reset_embeddings
reset_embeddings(self) ==
    [self EXCEPT !.embeddings = NoKey, !.vector_store = NoFaiss,
                 !.section_titles = {}, !.section_to_chunks = EmptyDict]

\* assignment instead of extend
ExtendReplaces(list, items) == items

\* list.extend
Extend(list, items) == list \o items

\* the position inside the batch, without the offset of the chunks already held
ChunkPositionInBatch(lenAll, lenBatch, idx) == idx

\* len(self.chunks) - len(chunks) + idx: the global position of the idx-th
\* chunk of the batch (zero-based, as in the code)
ChunkPosition(lenAll, lenBatch, idx) == lenAll - lenBatch + idx

\* keeps one position per title
SetDefaultOnce(dict, key, value) ==
    [t \in DOMAIN dict \cup {key} |->
        IF t = key THEN (IF key \in DOMAIN dict THEN dict[key] ELSE <<value>>)
        ELSE dict[t]]

\* a setdefault that puts the position in front of the list
SetDefaultInsertFirst(dict, key, value) ==
    [t \in DOMAIN dict \cup {key} |->
        IF t = key THEN (IF key \in DOMAIN dict THEN <<value>> \o dict[key] ELSE <<value>>)
        ELSE dict[t]]

\* self.section_to_chunks.setdefault(section_title, []).append(position)
SetDefaultAppend(dict, key, value) ==
    [t \in DOMAIN dict \cup {key} |->
        IF t = key THEN (IF key \in DOMAIN dict THEN Append(dict[key], value) ELSE <<value>>)
        ELSE dict[t]]

\* `if section_title:`
Truthy(title) == title # NoTitle

\* the `for idx, chunk in enumerate(chunks)` loop of add_documents
RECURSIVE SectionIndexLoop(_, _, _)
SectionIndexLoop(self, chunks, idx) ==
    IF idx >= Len(chunks) THEN self
    ELSE LET section_title == chunks[idx + 1].section_title
             next == IF Truthy(section_title)
                     THEN [self EXCEPT
                             !.section_titles = @ \cup {section_title},
                             !.section_to_chunks =
                                 SetDefaultAppend(@, section_title,
                                     ChunkPosition(Len(self.chunks), Len(chunks), idx))]
                     ELSE self
         IN SectionIndexLoop(next, chunks, idx + 1)

\* `if not self.embeddings and config.GOOGLE_API_KEY` of _initialize_embeddings:
\* the provider is constructed only then
NeedsEmbeddingsInit(self, key) == self.embeddings = NoKey /\ key # NoKey

\* _initialize_embeddings; providerOk is whether the constructor succeeds.
\* The binding remembers the key it was built with.
InitializeEmbeddings(self, key, providerOk) ==
    IF NeedsEmbeddingsInit(self, key)
    THEN IF providerOk THEN [store |-> [self EXCEPT !.embeddings = key], ret |-> TRUE]
         ELSE [store |-> self, ret |-> FALSE]
    ELSE [store |-> self, ret |-> self.embeddings # NoKey]

\* the metadata dict built per chunk
Metadata(chunk) ==
    [chunk_id |-> chunk.id, filename |-> chunk.filename,
     document_id |-> chunk.document_id, section_title |-> chunk.section_title]

RECURSIVE Metadatas(_)
Metadatas(chunks) ==
    IF chunks = <<>> THEN <<>> ELSE <<Metadata(Head(chunks))>> \o Metadatas(Tail(chunks))

\* `if chunks:` block: FAISS.from_texts, then create or merge_from.
\* providerOk is whether embedding the batch succeeds; a failure is caught
\* and logged.
UpdateVectorStore(self, chunks, providerOk) ==
    IF chunks = <<>> \/ ~providerOk THEN self
    ELSE IF ~self.vector_store.init
         THEN [self EXCEPT !.vector_store = [init |-> TRUE, docs |-> Metadatas(chunks)]]
         ELSE [self EXCEPT !.vector_store.docs = @ \o Metadatas(chunks)]

\* add_documents as one call
add_documents(self, documents, chunks, key, initOk, embedOk) ==
    LET s1 == [self EXCEPT !.documents = Extend(@, documents)]
        s2 == [s1 EXCEPT !.chunks = Extend(@, chunks)]
        s3 == SectionIndexLoop(s2, chunks, 0)
        r == InitializeEmbeddings(s3, key, initOk)
    IN IF ~r.ret THEN r.store ELSE UpdateVectorStore(r.store, chunks, embedOk)

\* get_document_summary
get_document_summary(self) ==
    IF self.documents = <<>>
    THEN [total_documents |-> 0, total_chunks |-> 0]
    ELSE [total_documents |-> Len(self.documents),
          total_chunks |-> SumSeq([i \in 1..Len(self.documents) |-> self.documents[i].chunk_count])]

\* ---------------------------------------------------------------------------
\* vector_store.py: the searches
\* ---------------------------------------------------------------------------
\* The distance the backend computes between a query and a stored record: a
\* fixed function of the two (a deterministic embedding and metric).
Dist(query, doc) == (doc.chunk_id * query) % 7

RECURSIVE InsertByScore(_, _)
InsertByScore(sorted, r) ==
    IF sorted = <<>> THEN <<r>>
    ELSE IF Head(sorted).score <= r.score
         THEN <<Head(sorted)>> \o InsertByScore(Tail(sorted), r)
         ELSE <<r>> \o sorted

RECURSIVE SortByScore(_)
SortByScore(rs) ==
    IF rs = <<>> THEN <<>>
    ELSE InsertByScore(SortByScore(SubSeq(rs, 1, Len(rs) - 1)), rs[Len(rs)])

\* FAISS.similarity_search_with_score(query, k): the k nearest records,
\* ascending by score
similarity_search_with_score(faiss, query, k) ==
    LET scored == [i \in 1..Len(faiss.docs) |->
                      [doc |-> faiss.docs[i], score |-> Dist(query, faiss.docs[i])]]
        sorted == SortByScore(scored)
    IN SubSeq(sorted, 1, IF k < Len(sorted) THEN k ELSE Len(sorted))

\* the guard left out
StoreMissingUnchecked(self) == FALSE

\* `if not self.vector_store: return []`
StoreMissing(self) == ~self.vector_store.init

\* the `for doc, score in results` loop of search_sections, with its break
RECURSIVE ScanSections(_, _, _, _, _)
ScanSections(results, i, k, seen, section_results) ==
    IF i > Len(results) THEN section_results
    ELSE LET section_title == results[i].doc.section_title
             fresh == Truthy(section_title) /\ section_title \notin seen
             acc == IF fresh
                    THEN Append(section_results,
                                [section_title |-> section_title, score |-> results[i].score])
                    ELSE section_results
         IN IF Len(acc) >= k THEN acc
            ELSE ScanSections(results, i + 1, k,
                              IF fresh THEN seen \cup {section_title} ELSE seen, acc)

\* search_sections; backendOk is whether the backend call succeeds (an
\* exception is caught and [] returned).  calls counts the backend calls made.
search_sections(self, query, k, backendOk) ==
    IF StoreMissing(self) THEN [result |-> <<>>, calls |-> 0, failed |-> FALSE]
    ELSE IF ~backendOk THEN [result |-> <<>>, calls |-> 1, failed |-> TRUE]
    ELSE [result |-> ScanSections(similarity_search_with_score(self.vector_store, query, FetchK),
                                  1, k, {}, <<>>),
          calls |-> 1, failed |-> FALSE]

\* the dict search_chunks_in_section / search build per result
ChunkResult(r) ==
    [chunk_id |-> r.doc.chunk_id, score |-> r.score, filename |-> r.doc.filename,
     section_title |-> r.doc.section_title]

\* the `for doc, score in results` loop of search_chunks_in_section
RECURSIVE ScanChunks(_, _, _, _, _)
ScanChunks(results, i, k, section_title, filtered) ==
    IF i > Len(results) THEN filtered
    ELSE LET acc == IF results[i].doc.section_title = section_title
                    THEN Append(filtered, ChunkResult(results[i]))
                    ELSE filtered
         IN IF Len(acc) >= k THEN acc
            ELSE ScanChunks(results, i + 1, k, section_title, acc)

\* a lookup that finds a position under every title
DictGetAnything(dict, key) == IF key \in DOMAIN dict THEN dict[key] ELSE <<0>>

\* self.section_to_chunks.get(section_title, [])
DictGet(dict, key) == IF key \in DOMAIN dict THEN dict[key] ELSE <<>>

\* search_chunks_in_section
search_chunks_in_section(self, section_title, query, k, backendOk) ==
    IF StoreMissing(self) THEN [result |-> <<>>, calls |-> 0, failed |-> FALSE]
    ELSE IF DictGet(self.section_to_chunks, section_title) = <<>>
         THEN [result |-> <<>>, calls |-> 0, failed |-> FALSE]
    ELSE IF ~backendOk THEN [result |-> <<>>, calls |-> 1, failed |-> TRUE]
    ELSE [result |-> ScanChunks(similarity_search_with_score(self.vector_store, query, FetchK),
                                1, k, section_title, <<>>),
          calls |-> 1, failed |-> FALSE]

\* a loop that puts each section's chunks in front of those collected so far
RECURSIVE SectionChunksLoopPrepends(_, _, _, _, _, _, _)
SectionChunksLoopPrepends(self, section_results, j, query, k_chunks, backendOk, acc) ==
    IF j > Len(section_results) THEN acc
    ELSE LET r == search_chunks_in_section(self, section_results[j].section_title,
                                           query, k_chunks, backendOk[j + 1])
         IN SectionChunksLoopPrepends(self, section_results, j + 1, query, k_chunks, backendOk,
                [chunks |-> r.result \o acc.chunks,
                 calls |-> acc.calls + r.calls,
                 failed |-> acc.failed \/ r.failed])

\* the `for section in section_results` loop of hierarchical_search; the
\* j-th section's search is backend call number j + 1 of the request
RECURSIVE SectionChunksLoop(_, _, _, _, _, _, _)
SectionChunksLoop(self, section_results, j, query, k_chunks, backendOk, acc) ==
    IF j > Len(section_results) THEN acc
    ELSE LET r == search_chunks_in_section(self, section_results[j].section_title,
                                           query, k_chunks, backendOk[j + 1])
         IN SectionChunksLoop(self, section_results, j + 1, query, k_chunks, backendOk,
                [chunks |-> acc.chunks \o r.result,
                 calls |-> acc.calls + r.calls,
                 failed |-> acc.failed \/ r.failed])

\* hierarchical_search; backendOk[n] is whether the n-th search of the
\* request finds the backend working
hierarchical_search(self, query, k_sections, k_chunks, backendOk) ==
    LET s == search_sections(self, query, k_sections, backendOk[1])
        c == SectionChunksLoop(self, s.result, 1, query, k_chunks, backendOk,
                               [chunks |-> <<>>, calls |-> s.calls, failed |-> s.failed])
    IN [sections |-> s.result, chunks |-> c.chunks, calls |-> c.calls, failed |-> c.failed]

\* A context string is written as the sequence of turns it renders; the
\* empty string renders none.
NoContext == <<>>

\* `if context:` enhanced_query = f"Context: {context}\nQuestion: {query}":
\* another text, hence another embedding
EnhancedQuery(query, context) == IF context = NoContext THEN query ELSE query + 1

RECURSIVE ChunkResults(_)
ChunkResults(results) ==
    IF results = <<>> THEN <<>> ELSE <<ChunkResult(Head(results))>> \o ChunkResults(Tail(results))

\* search
search(self, query, k, context, hierarchical, backendOk) ==
    IF hierarchical
    THEN LET r == hierarchical_search(self, query, DefaultKSections, k, backendOk)
         IN [result |-> r.chunks, calls |-> r.calls, failed |-> r.failed]
    ELSE IF StoreMissing(self) THEN [result |-> <<>>, calls |-> 0, failed |-> FALSE]
    ELSE IF ~backendOk[1] THEN [result |-> <<>>, calls |-> 1, failed |-> TRUE]
    ELSE [result |-> ChunkResults(similarity_search_with_score(self.vector_store,
                                      EnhancedQuery(query, context), k)),
          calls |-> 1, failed |-> FALSE]

\* ---------------------------------------------------------------------------
\* conversation_manager.py, qa_chain.py: what ask_question reads and calls
\* ---------------------------------------------------------------------------
\* list[-n:] for n >= 0 (list[-0:] is the whole list)
LastN(list, n) ==
    IF n = 0 \/ n >= Len(list) THEN list
    ELSE SubSeq(list, Len(list) - n + 1, Len(list))

\* an add_conversation that never drops an entry
AddConversationUncapped(self, entry) == Append(self, entry)

\* add_conversation: append, then keep the last MaxConversations entries
add_conversation(self, entry) ==
    LET appended == Append(self, entry)
    IN IF Len(appended) > MaxConversations
       THEN LastN(appended, MaxConversations)
       ELSE appended

\* clear_history
clear_history(self) == <<>>

\* str.lower() on the letters of the model
LowerChar(c) == IF c = "A" THEN "a" ELSE IF c = "B" THEN "b" ELSE c

Lower(text) == [i \in 1..Len(text) |-> LowerChar(text[i])]

\* `sub in text` for strings
Contains(text, sub) ==
    \E i \in 0..(Len(text) - Len(sub)) : SubSeq(text, i + 1, i + Len(sub)) = sub

\* `query_lower in conv.question.lower() or query_lower in conv.answer.lower()`
ConversationMatches(conv, query_lower) ==
    Contains(Lower(conv.question), query_lower) \/ Contains(Lower(conv.answer), query_lower)

\* the `for conv in reversed(self.conversations)` loop of search_conversations;
\* i is the position of conv
RECURSIVE ScanConversations(_, _, _, _, _)
ScanConversations(self, i, query_lower, limit, results) ==
    IF i < 1 THEN results
    ELSE IF ConversationMatches(self[i], query_lower)
         THEN LET acc == Append(results, self[i])
              IN IF Len(acc) >= limit THEN acc
                 ELSE ScanConversations(self, i - 1, query_lower, limit, acc)
         ELSE ScanConversations(self, i - 1, query_lower, limit, results)

\* search_conversations
search_conversations(self, query, limit) ==
    ScanConversations(self, Len(self), Lower(query), limit, <<>>)

\* get_conversation_history
get_conversation_history(self, limit) ==
    IF self = <<>> THEN <<>> ELSE LastN(self, limit)

\* get_conversation_context: "" without turns, else the header followed by
\* one "Q: ...\nA: ...\n\n" per turn
get_conversation_context(self, context_length) ==
    LET recent == get_conversation_history(self, context_length)
    IN IF recent = <<>> THEN NoContext
       ELSE [i \in 1..Len(recent) |->
                [question |-> recent[i].question, answer |-> recent[i].answer]]

\* what the chat model does on a request: it answers, its constructor
\* raises, or chain.invoke raises
AnswerOutcomes == {"ok", "init_error", "invoke_error"}

\* qa_chain.answer_question: _initialize (the model is built once and kept),
\* then chain.invoke; every exception is re-raised
answer_question(self, key, outcome) ==
    IF key = NoKey \/ key = "" THEN [qa_chain |-> self, raised |-> TRUE]
    ELSE IF self = NoKey /\ outcome = "init_error" THEN [qa_chain |-> self, raised |-> TRUE]
    ELSE [qa_chain |-> IF self = NoKey THEN key ELSE self,
          raised |-> outcome = "invoke_error"]

\* ---------------------------------------------------------------------------
\* State
\* ---------------------------------------------------------------------------
VARIABLES
    vector_store,    \* the global SimpleVectorStore instance
    GOOGLE_API_KEY,  \* config.GOOGLE_API_KEY
    nextId,          \* source of fresh uuid4 values
    pc,              \* per request handler: where it stands
    local,           \* per request handler: the batch add_documents was called with
    last,            \* what the most recent completed call returned to its caller
    committed,       \* the store as left by the completed calls, each applied whole
    acked,           \* ids of the chunks of uploads answered 200 since the last reset
    conversations,   \* conversation_manager.conversations
    qa_chain         \* the key qa_chain.model was built with, NoKey while it is None

vars == <<vector_store, GOOGLE_API_KEY, nextId, pc, local, last, committed, acked,
          conversations, qa_chain>>

NoLocal == [files |-> <<>>, documents |-> <<>>, chunks |-> <<>>]
NoResult == [op |-> "none"]

Init ==
    /\ vector_store = NewStore
    /\ GOOGLE_API_KEY \in {NoKey} \cup Keys
    /\ nextId = 1
    /\ pc = [h \in Handlers |-> "idle"]
    /\ local = [h \in Handlers |-> NoLocal]
    /\ last = NoResult
    /\ committed = NewStore
    /\ acked = {}
    /\ conversations = <<>>
    /\ qa_chain = NoKey

\* handlers that yield to each other between statements
ScheduledInterleaved(running) == TRUE

\* ---------------------------------------------------------------------------
\* Scheduling (routes.py)
\* ---------------------------------------------------------------------------
\* Every route is an `async def` whose body never awaits, so the event loop
\* runs a handler to completion before it starts or resumes another one.
\* `running` is the set of tracked handlers the step belongs to.
Scheduled(running) == \A g \in Handlers \ running : pc[g] = "idle"

\* a call that is a single step of the model belongs to no tracked handler
Untracked == {}

Quiescent == \A h \in Handlers : pc[h] = "idle"

\* the answer to the previous request has gone out
ResponseSent == last = NoResult

\* a request is served by the first handler that is free
FirstFree(h) == \A g \in Handlers : g < h => pc[g] # "idle"

\* a check that takes every key, the missing one included, for configured
KeyAlwaysConfigured(key) == TRUE

\* is_api_key_configured (the keys of the model contain no whitespace)
is_api_key_configured(key) == key # NoKey /\ key # ""

\* What the caller of POST /upload observes: the status, the counts of the
\* success body, and (for the properties) the files of a rejected request,
\* the chunk_count of each processed document, the ids of the processed
\* chunks and whether add_documents logged a provider failure.
UploadResponse(status, result, failed) ==
    [op |-> "upload", status |-> status,
     files |-> result.files,
     documents |-> Len(result.documents), chunks |-> Len(result.chunks),
     chunk_counts |-> [i \in 1..Len(result.documents) |-> result.documents[i].chunk_count],
     chunk_ids |-> {result.chunks[i].id : i \in 1..Len(result.chunks)},
     provider_failed |-> failed]

Rejected(status, files) ==
    UploadResponse(status, [NoLocal EXCEPT !.files = files], FALSE)

\* rejects an upload that produced no chunk
NothingProcessedNoChunks(result) == result.chunks = <<>>

\* `if not result["documents"]`
NothingProcessed(result) == result.documents = <<>>

\* ---------------------------------------------------------------------------
\* POST /upload: upload_pdfs up to the call of add_documents
\* ---------------------------------------------------------------------------
UploadPdfs(h, files) ==
    /\ pc[h] = "idle"
    /\ FirstFree(h)
    /\ ResponseSent
    /\ Scheduled({h})
    /\ LET result == process_multiple_pdfs(files, nextId)
           reject(status) ==
               /\ last' = Rejected(status, files)
               /\ UNCHANGED <<vector_store, GOOGLE_API_KEY, conversations, qa_chain, nextId, pc, local, committed, acked>>
       IN IF files = <<>> THEN reject(400)
          ELSE IF ~is_api_key_configured(GOOGLE_API_KEY) THEN reject(400)
          \* the HTTPException(400) raised inside the try is caught by
          \* `except Exception` and re-raised as a 500
          ELSE IF NothingProcessed(result) THEN reject(500)
          ELSE /\ Len(vector_store.documents) + Len(result.documents) <= MaxDocs
               /\ Len(vector_store.chunks) + Len(result.chunks) <= MaxChunks
               /\ pc' = [pc EXCEPT ![h] = "extend_documents"]
               /\ local' = [local EXCEPT ![h] = [files |-> files,
                                                 documents |-> result.documents,
                                                 chunks |-> result.chunks]]
               /\ nextId' = result.nextFree
               /\ last' = NoResult
               /\ UNCHANGED <<vector_store, GOOGLE_API_KEY, conversations, qa_chain, committed, acked>>

\* ---------------------------------------------------------------------------
\* add_documents, statement by statement
\* ---------------------------------------------------------------------------
\* self.documents.extend(documents)
AddExtendDocuments(h) ==
    /\ pc[h] = "extend_documents"
    /\ Scheduled({h})
    /\ vector_store' = [vector_store EXCEPT !.documents = Extend(@, local[h].documents)]
    /\ pc' = [pc EXCEPT ![h] = "extend_chunks"]
    /\ local' = [local EXCEPT ![h].files = <<>>]
    /\ UNCHANGED <<GOOGLE_API_KEY, conversations, qa_chain, nextId, last, committed, acked>>

\* self.chunks.extend(chunks)
AddExtendChunks(h) ==
    /\ pc[h] = "extend_chunks"
    /\ Scheduled({h})
    /\ vector_store' = [vector_store EXCEPT !.chunks = Extend(@, local[h].chunks)]
    /\ pc' = [pc EXCEPT ![h] = "section_index"]
    /\ UNCHANGED <<GOOGLE_API_KEY, conversations, qa_chain, nextId, local, last, committed, acked>>

\* the section index loop
AddSectionIndex(h) ==
    /\ pc[h] = "section_index"
    /\ Scheduled({h})
    /\ vector_store' = SectionIndexLoop(vector_store, local[h].chunks, 0)
    /\ pc' = [pc EXCEPT ![h] = "initialize_embeddings"]
    /\ UNCHANGED <<GOOGLE_API_KEY, conversations, qa_chain, nextId, local, last, committed, acked>>

\* add_documents returns and upload_pdfs answers 200
UploadReturns(h, initOk, embedOk, failed) ==
    /\ pc' = [pc EXCEPT ![h] = "idle"]
    /\ local' = [local EXCEPT ![h] = NoLocal]
    /\ last' = UploadResponse(200, local[h], failed)
    /\ committed' = add_documents(committed, local[h].documents, local[h].chunks,
                                  GOOGLE_API_KEY, initOk, embedOk)
    /\ acked' = acked \cup {local[h].chunks[i].id : i \in 1..Len(local[h].chunks)}

\* `if not self._initialize_embeddings(): return`
AddInitEmbeddings(h, providerOk) ==
    /\ pc[h] = "initialize_embeddings"
    /\ Scheduled({h})
    /\ providerOk \/ NeedsEmbeddingsInit(vector_store, GOOGLE_API_KEY)
    /\ LET r == InitializeEmbeddings(vector_store, GOOGLE_API_KEY, providerOk)
       IN /\ vector_store' = r.store
          /\ IF r.ret
             THEN /\ pc' = [pc EXCEPT ![h] = "update_vector_store"]
                  /\ UNCHANGED <<local, last, committed, acked>>
             ELSE UploadReturns(h, FALSE, FALSE, TRUE)
    /\ UNCHANGED <<GOOGLE_API_KEY, conversations, qa_chain, nextId>>

\* the `if chunks:` block, then the return
AddUpdateVectorStore(h, providerOk) ==
    /\ pc[h] = "update_vector_store"
    /\ Scheduled({h})
    /\ providerOk \/ local[h].chunks # <<>>
    /\ vector_store' = UpdateVectorStore(vector_store, local[h].chunks, providerOk)
    /\ UploadReturns(h, TRUE, providerOk, ~providerOk)
    /\ UNCHANGED <<GOOGLE_API_KEY, conversations, qa_chain, nextId>>

\* ---------------------------------------------------------------------------
\* reinitialize_components -> vector_store.reset_embeddings()
\* ---------------------------------------------------------------------------
ResetEmbeddings ==
    /\ ResponseSent
    /\ Scheduled(Untracked)
    /\ vector_store' = reset_embeddings(vector_store)
    /\ committed' = reset_embeddings(committed)
    /\ acked' = {}
    /\ last' = [op |-> "reset"]
    /\ UNCHANGED <<GOOGLE_API_KEY, conversations, qa_chain, nextId, pc, local>>

\* ---------------------------------------------------------------------------
\* POST /configure_api_key -> configure_api_key(api_key)
\* ---------------------------------------------------------------------------
ConfigureApiKey(api_key) ==
    /\ ResponseSent
    /\ Scheduled(Untracked)
    /\ GOOGLE_API_KEY' = api_key
    /\ last' = [op |-> "configure_api_key", status |-> 200]
    /\ UNCHANGED <<vector_store, conversations, qa_chain, nextId, pc, local, committed, acked>>

\* ---------------------------------------------------------------------------
\* The searches, each called on the store as it stands
\* ---------------------------------------------------------------------------
\* What the caller of a search observes (sections, chunks, and whether the
\* call raised) and, for the properties, the arguments, the number of backend
\* calls made and whether one of them failed.  Every search method ends in
\* `except Exception as e: logger.error(...); return []`, and
\* hierarchical_search only calls such methods: no search raises.
SearchResult(op, query, title, k_sections, k_chunks, sections, chunks, calls, failed) ==
    [op |-> op, query |-> query, title |-> title,
     k_sections |-> k_sections, k_chunks |-> k_chunks,
     sections |-> sections, chunks |-> chunks, raised |-> FALSE,
     calls |-> calls, failed |-> failed]

SearchOps == {"search_sections", "search_chunks_in_section", "hierarchical_search", "search"}

Ks == 0..MaxK

\* a search that takes the best record out of the backend as it reads it
SearchSectionsConsumes(query, k, backendOk) ==
    /\ ResponseSent
    /\ Scheduled(Untracked)
    /\ LET r == search_sections(vector_store, query, k, backendOk)
       IN /\ last' = SearchResult("search_sections", query, NoTitle, k, 0,
                                  r.result, <<>>, r.calls, r.failed)
          /\ vector_store' =
                IF r.result = <<>> THEN vector_store
                ELSE [vector_store EXCEPT !.vector_store.docs =
                        SelectSeq(@, LAMBDA d : d.section_title # r.result[1].section_title)]
    /\ UNCHANGED <<GOOGLE_API_KEY, conversations, qa_chain, nextId, pc, local, committed, acked>>

SearchSections(query, k, backendOk) ==
    /\ ResponseSent
    /\ Scheduled(Untracked)
    /\ LET r == search_sections(vector_store, query, k, backendOk)
       IN last' = SearchResult("search_sections", query, NoTitle, k, 0,
                               r.result, <<>>, r.calls, r.failed)
    /\ UNCHANGED <<vector_store, GOOGLE_API_KEY, conversations, qa_chain, nextId, pc, local, committed, acked>>

SearchChunksInSection(section_title, query, k, backendOk) ==
    /\ ResponseSent
    /\ Scheduled(Untracked)
    /\ LET r == search_chunks_in_section(vector_store, section_title, query, k, backendOk)
       IN last' = SearchResult("search_chunks_in_section", query, section_title, 0, k,
                               <<>>, r.result, r.calls, r.failed)
    /\ UNCHANGED <<vector_store, GOOGLE_API_KEY, conversations, qa_chain, nextId, pc, local, committed, acked>>

HierarchicalSearch(query, k_sections, k_chunks, backendOk) ==
    /\ ResponseSent
    /\ Scheduled(Untracked)
    /\ LET r == hierarchical_search(vector_store, query, k_sections, k_chunks, backendOk)
       IN last' = SearchResult("hierarchical_search", query, NoTitle, k_sections, k_chunks,
                               r.sections, r.chunks, r.calls, r.failed)
    /\ UNCHANGED <<vector_store, GOOGLE_API_KEY, conversations, qa_chain, nextId, pc, local, committed, acked>>

\* a search that adds a record to the backend index when it is given a context
SearchStoresContext(query, k, context, hierarchical, backendOk) ==
    /\ ResponseSent
    /\ Scheduled(Untracked)
    /\ LET r == search(vector_store, query, k, context, hierarchical, backendOk)
       IN last' = SearchResult("search", query, NoTitle,
                               IF hierarchical THEN DefaultKSections ELSE 0, k,
                               <<>>, r.result, r.calls, r.failed)
    /\ vector_store' =
          IF \/ context = NoContext
             \/ vector_store.vector_store.docs = <<>>
             \/ Len(vector_store.vector_store.docs) > Len(vector_store.chunks)
          THEN vector_store
          ELSE [vector_store EXCEPT !.vector_store.docs = Append(@, @[1])]
    /\ UNCHANGED <<GOOGLE_API_KEY, conversations, qa_chain, nextId, pc, local, committed, acked>>

Search(query, k, context, hierarchical, backendOk) ==
    /\ ResponseSent
    /\ Scheduled(Untracked)
    /\ LET r == search(vector_store, query, k, context, hierarchical, backendOk)
       IN last' = SearchResult("search", query, NoTitle,
                               IF hierarchical THEN DefaultKSections ELSE 0, k,
                               <<>>, r.result, r.calls, r.failed)
    /\ UNCHANGED <<vector_store, GOOGLE_API_KEY, conversations, qa_chain, nextId, pc, local, committed, acked>>

\* ---------------------------------------------------------------------------
\* POST /ask: ask_question
\* ---------------------------------------------------------------------------
\* a question is the id of its text; id 0 is a text that is blank
Questions == {0} \cup Queries

\* `if not request.question.strip()`
Blank(question) == question = 0

\* routes.py binds `datetime` to the module (`import datetime`), so the
\* `timestamp=datetime.now()` argument of ConversationEntry(...) raises
\* AttributeError inside the try block
DatetimeNowRaises == TRUE

\* What the caller of POST /ask observes (status, detail) and, for the
\* properties, the request, the result of the search and whether
\* qa_chain.answer_question was called with it.
AskResponse(status, detail, question, top_k, relevant_docs, asked) ==
    [op |-> "ask", status |-> status, detail |-> detail,
     question |-> question, top_k |-> top_k,
     relevant_docs |-> relevant_docs, asked |-> asked]

AskQuestion(question, top_k, include_context, context_length, backendOk, outcome) ==
    /\ ResponseSent
    /\ Scheduled(Untracked)
    /\ outcome = "init_error" => qa_chain = NoKey
    /\ LET context == IF include_context
                      THEN get_conversation_context(conversations, context_length)
                      ELSE NoContext
           r == search(vector_store, question, top_k, context, FALSE, backendOk)
           a == answer_question(qa_chain, GOOGLE_API_KEY, outcome)
           answer(status, detail, docs, asked) ==
               last' = AskResponse(status, detail, question, top_k, docs, asked)
       IN IF Blank(question)
          THEN answer(400, "Question cannot be empty", <<>>, FALSE) /\ UNCHANGED qa_chain
          ELSE IF ~is_api_key_configured(GOOGLE_API_KEY)
          THEN answer(400, "API key not configured", <<>>, FALSE) /\ UNCHANGED qa_chain
          \* from here on inside `try`: every exception, the HTTPException(404)
          \* included, leaves through `except Exception` as a 500
          ELSE IF r.result = <<>>
          THEN answer(500, "404: No relevant documents found", <<>>, FALSE)
               /\ UNCHANGED qa_chain
          ELSE /\ qa_chain' = a.qa_chain
               /\ IF a.raised
                  THEN answer(500, "answer provider error", r.result, TRUE)
                  ELSE DatetimeNowRaises
                       /\ answer(500, "module 'datetime' has no attribute 'now'",
                                 r.result, TRUE)
    \* conversation_manager.add_conversation (line 123) and
    \* memory_store.add_metrics (line 126) are never reached
    /\ UNCHANGED <<vector_store, GOOGLE_API_KEY, conversations, nextId, pc, local,
                   committed, acked>>

\* ---------------------------------------------------------------------------
\* The conversation manager, called on the history as it stands
\* ---------------------------------------------------------------------------
Answers == {"a", "b"}
Entries == [question : Queries, answer : Answers]

\* conversation_manager.add_conversation(entry)
AddConversation(entry) ==
    /\ ResponseSent
    /\ Scheduled(Untracked)
    /\ conversations' = add_conversation(conversations, entry)
    /\ UNCHANGED <<vector_store, GOOGLE_API_KEY, qa_chain, nextId, pc, local, last,
                   committed, acked>>

\* DELETE /history -> conversation_manager.clear_history()
ClearHistory ==
    /\ ResponseSent
    /\ Scheduled(Untracked)
    /\ conversations' = clear_history(conversations)
    /\ last' = [op |-> "clear_history", status |-> 200]
    /\ UNCHANGED <<vector_store, GOOGLE_API_KEY, qa_chain, nextId, pc, local, committed, acked>>

\* GET /search -> conversation_manager.search_conversations(q, limit)
SearchConversations(query, limit) ==
    /\ ResponseSent
    /\ Scheduled(Untracked)
    /\ last' = [op |-> "search_conversations", query |-> query, limit |-> limit,
                results |-> search_conversations(conversations, query, limit)]
    /\ UNCHANGED <<vector_store, GOOGLE_API_KEY, conversations, qa_chain, nextId, pc, local,
                   committed, acked>>

\* conversation_manager.get_conversation_context(context_length)
GetConversationContext(context_length) ==
    /\ ResponseSent
    /\ Scheduled(Untracked)
    /\ last' = [op |-> "get_conversation_context", context_length |-> context_length,
                context |-> get_conversation_context(conversations, context_length)]
    /\ UNCHANGED <<vector_store, GOOGLE_API_KEY, conversations, qa_chain, nextId, pc, local,
                   committed, acked>>

\* the response of the last call reaches its caller
Respond ==
    /\ last # NoResult
    /\ last' = NoResult
    /\ UNCHANGED <<vector_store, GOOGLE_API_KEY, conversations, qa_chain, nextId, pc, local, committed, acked>>

\* ---------------------------------------------------------------------------
\* Specification
\* ---------------------------------------------------------------------------
Batches == SeqsUpTo(Files, MaxBatch)

FailFrom(n) == [i \in 1..(MaxK + 1) |-> i < n]
\* the backend works for the first n - 1 searches of a request and is down
\* from the n-th on (n = MaxK + 2: it works throughout)
BackendOutcomes == {FailFrom(n) : n \in 1..(MaxK + 2)}

Ingest ==
    \/ \E h \in Handlers :
          \* a request is taken up by an idle handler once the last response is out
          /\ pc[h] = "idle" /\ ResponseSent /\ Quiescent
          /\ \E files \in Batches : UploadPdfs(h, files)
    \/ \E h \in Handlers : AddExtendDocuments(h)
    \/ \E h \in Handlers : AddExtendChunks(h)
    \/ \E h \in Handlers : AddSectionIndex(h)
    \/ \E h \in Handlers, providerOk \in BOOLEAN : AddInitEmbeddings(h, providerOk)
    \/ \E h \in Handlers, providerOk \in BOOLEAN : AddUpdateVectorStore(h, providerOk)
    \/ ResetEmbeddings
    \/ Respond

Next ==
    \/ Ingest
    \/ \E api_key \in Keys : ConfigureApiKey(api_key)

Spec == Init /\ [][Next]_vars

\* The searches on a store that is being filled and reset; the key is the
\* one the process was started with.
SearchInit == Init /\ GOOGLE_API_KEY = "k1"

\* the contexts a caller of search passes: none, or one earlier turn
Contexts == {NoContext, <<[question |-> 1, answer |-> "a"]>>}

SearchNext ==
    \/ Ingest
    \* a search is called once the last response is out and no upload is running
    \/ /\ ResponseSent /\ Quiescent
       /\ \E query \in Queries, k \in Ks, backendOk \in BOOLEAN :
              SearchSections(query, k, backendOk)
    \/ /\ ResponseSent /\ Quiescent
       /\ \E section_title \in Titles, query \in Queries, k \in Ks, backendOk \in BOOLEAN :
              SearchChunksInSection(section_title, query, k, backendOk)
    \/ /\ ResponseSent /\ Quiescent
       /\ \E query \in Queries, k_sections \in Ks, k_chunks \in Ks,
             backendOk \in BackendOutcomes :
              HierarchicalSearch(query, k_sections, k_chunks, backendOk)
    \/ /\ ResponseSent /\ Quiescent
       /\ \E query \in Queries, k \in Ks, context \in Contexts, backendOk \in {1, MaxK + 2} :
              Search(query, k, context, FALSE, FailFrom(backendOk))
    \/ /\ ResponseSent /\ Quiescent
       /\ \E query \in Queries, k \in Ks, backendOk \in BackendOutcomes :
              Search(query, k, NoContext, TRUE, backendOk)

SearchSpec == SearchInit /\ [][SearchNext]_vars

\* Questions asked of a store that is being filled and reset; the process
\* was started with or without a key.
AskInit == Init /\ GOOGLE_API_KEY \in {NoKey, "k1"}

AskNext ==
    \/ Ingest
    \/ \E question \in Questions, top_k \in Ks, include_context \in BOOLEAN,
          context_length \in Ks, backendOk \in {1, MaxK + 2}, outcome \in AnswerOutcomes :
           AskQuestion(question, top_k, include_context, context_length,
                       FailFrom(backendOk), outcome)

AskSpec == AskInit /\ [][AskNext]_vars

\* One document of any text and any list of provider spans, processed by
\* upload_pdfs up to the call of add_documents.
PaddedText == <<" ", "a", " ", "b", "c", " ", " ", "d">>
Texts == {Text, PaddedText}

\* char_intervals: disjoint ones, one overlapping its neighbours, two with
\* the same start
Intervals == {<<0, 2>>, <<3, 4>>, <<5, 7>>, <<1, 4>>, <<3, 6>>}

Spans(text) ==
    {Span(cls, iv[1], iv[2], text,
          IF iv[1] = 0 THEN "A" ELSE "B", IF iv[1] = 0 THEN NoTitle ELSE "A", TRUE) :
        cls \in {"section", "note"}, iv \in Intervals}

ExtractRequests(text) ==
    {<<[File("doc.pdf", "ok", extractions) EXCEPT !.text = text]>> :
        extractions \in SeqsUpTo(Spans(text), MaxSpans)}

ExtractInit == Init /\ GOOGLE_API_KEY = "k1"

ExtractNext ==
    /\ pc[1] = "idle" /\ ResponseSent
    /\ \E text \in Texts : \E files \in ExtractRequests(text) : UploadPdfs(1, files)

ExtractSpec == ExtractInit /\ [][ExtractNext]_vars

\* The conversation manager under its own calls.
ConvInit == Init /\ GOOGLE_API_KEY = "k1"

ConvNext ==
    \/ \E entry \in Entries : Len(conversations) < MaxTurns /\ AddConversation(entry)
    \/ ClearHistory
    \/ \E context_length \in 0..(MaxTurns + 1) : GetConversationContext(context_length)
    \/ Respond

ConvSpec == ConvInit /\ [][ConvNext]_vars

\* A long conversation: the entries are numbered in the order they are
\* added, starting again at 1 after clear_history.
NextEntry ==
    [question |-> IF conversations = <<>> THEN 1
                  ELSE conversations[Len(conversations)].question + 1,
     answer |-> "a"]

LongNext ==
    \/ NextEntry.question <= MaxAdds /\ AddConversation(NextEntry)
    \/ ClearHistory
    \/ Respond

LongSpec == ConvInit /\ [][LongNext]_vars

\* Searching the history: questions and answers are texts in mixed case.
Words == {<<"A", "b">>, <<"b">>}
SpokenEntries == [question : Words, answer : Words]
SearchTerms == {<<>>, <<"a">>, <<"B">>, <<"b", "a">>}

FindNext ==
    \/ \E entry \in SpokenEntries : Len(conversations) < MaxTurns /\ AddConversation(entry)
    \/ /\ ResponseSent
       /\ \E query \in SearchTerms, limit \in 0..(MaxTurns + 1) :
              SearchConversations(query, limit)
    \/ Respond

FindSpec == ConvInit /\ [][FindNext]_vars

\* ---------------------------------------------------------------------------
\* Views of the store used by the properties
\* ---------------------------------------------------------------------------
ChunkIds(self) == {self.chunks[i].id : i \in 1..Len(self.chunks)}
ChunkIdSeq(self) == [i \in 1..Len(self.chunks) |-> self.chunks[i].id]
BackendIds(self) == {self.vector_store.docs[i].chunk_id : i \in 1..Len(self.vector_store.docs)}
BackendIdSeq(self) == [i \in 1..Len(self.vector_store.docs) |-> self.vector_store.docs[i].chunk_id]
TitledBackendIds(self) ==
    {self.vector_store.docs[i].chunk_id :
        i \in {j \in 1..Len(self.vector_store.docs) : Truthy(self.vector_store.docs[j].section_title)}}
MappedPositions(self) ==
    UNION {Range(self.section_to_chunks[t]) : t \in DOMAIN self.section_to_chunks}
MappedIds(self) ==
    {self.chunks[p + 1].id : p \in {q \in MappedPositions(self) : q >= 0 /\ q < Len(self.chunks)}}
SumChunkCount(self) ==
    SumSeq([i \in 1..Len(self.documents) |-> self.documents[i].chunk_count])

\* a file whose processing is skipped or raises
FileSkipped(file) ==
    \/ file.status # "ok"
    \/ \E i \in 1..Len(file.extractions) :
          /\ file.extractions[i].extraction_class = "section"
          /\ ~file.extractions[i].has_attributes

\* the files of a request that are neither skipped nor raise, in input order
KeptFiles(files) == SelectSeq(files, LAMBDA f : ~FileSkipped(f))

\* the extractions of a file the chunk loop turns into chunks
SectionCount(file) ==
    Cardinality({i \in 1..Len(file.extractions) :
                    file.extractions[i].extraction_class = "section"})

\* a file with text in which the provider finds no section header
Headerless(file) == file.status = "ok" /\ SectionCount(file) = 0

\* where the chunks of the i-th document of a batch start in its chunk list
ChunkOffset(documents, i) ==
    SumSeq([j \in 1..(i - 1) |-> documents[j].chunk_count])

\* the file a filename of the model stands for
FileNamed(filename) == CHOOSE f \in Files : f.filename = filename

\* the positions of the document records and of the chunks with a filename
DocsNamed(self, filename) ==
    {i \in 1..Len(self.documents) : self.documents[i].filename = filename}
ChunksNamed(self, filename) ==
    {i \in 1..Len(self.chunks) : self.chunks[i].filename = filename}

\* the chunks with a section title that add_documents indexed since the last
\* reset
IndexedSince(self, title, since) ==
    {i \in 1..Len(self.chunks) :
        self.chunks[i].section_title = title /\ self.chunks[i].id \in since}

\* the section-header spans of a file, in provider order
HeaderSpans(file) ==
    SelectSeq(file.extractions, LAMBDA e : e.extraction_class = "section")

\* how many spans of a list come before its j-th span in start-offset order,
\* ties in provider order
SpanRank(spans, j) ==
    Cardinality({m \in 1..Len(spans) :
                    \/ spans[m].start_pos < spans[j].start_pos
                    \/ spans[m].start_pos = spans[j].start_pos /\ m < j})

\* the section-header spans of a file in start-offset order, ties in
\* provider order
HeadersInOrder(file) ==
    LET spans == HeaderSpans(file)
    IN [c \in 1..Len(spans) |->
           spans[CHOOSE j \in 1..Len(spans) : SpanRank(spans, j) = c - 1]]

\* the handlers that hold a batch of one file, processed and not yet added
Processed == {h \in Handlers : pc[h] = "extend_documents" /\ Len(local[h].files) = 1}

\* the backend's top-20 results for a query, ascending by score
Scanned(self, query) == similarity_search_with_score(self.vector_store, query, FetchK)

\* the positions of a result list at which a non-empty section title occurs
\* for the first time
FirstOccurrences(results) ==
    SelectSeq([i \in 1..Len(results) |-> i],
              LAMBDA i : /\ Truthy(results[i].doc.section_title)
                         /\ \A j \in 1..(i - 1) :
                               results[j].doc.section_title # results[i].doc.section_title)

\* the positions of a result list whose record has the given section title
Occurrences(results, title) ==
    SelectSeq([i \in 1..Len(results) |-> i],
              LAMBDA i : results[i].doc.section_title = title)

Min2(a, b) == IF a < b THEN a ELSE b

\* the rank of a title in a list of section results (0 when it is not there)
SectionRank(sections, title) ==
    IF \E n \in 1..Len(sections) : sections[n].section_title = title
    THEN CHOOSE n \in 1..Len(sections) : sections[n].section_title = title
    ELSE 0

\* ---------------------------------------------------------------------------
\* Properties
\* ---------------------------------------------------------------------------

\* C1: after every sequence of uploads and resets (no add_documents call in
\* flight), the chunk list holds as many chunks as the recorded documents'
\* chunk_count values add up to, and get_document_summary reports that
\* number as total_chunks.
C1_TotalChunksIsSumOfCounts ==
    Quiescent =>
        /\ Len(vector_store.chunks) = SumChunkCount(vector_store)
        /\ get_document_summary(vector_store).total_chunks = Len(vector_store.chunks)

C1_Witness ==
    /\ Quiescent
    /\ Len(vector_store.documents) >= 2
    /\ Len(vector_store.chunks) >= 3
    /\ \E i \in 1..Len(vector_store.documents) : vector_store.documents[i].chunk_count = 0
    /\ StoreMissing(vector_store)

\* C2: in every state, every position listed under a title of
\* section_to_chunks is a valid index into the chunk list, and the chunk
\* there has that title as its section_title.
C2_SectionPositionsPointAtTheirChunks ==
    \A t \in DOMAIN vector_store.section_to_chunks :
        \A i \in 1..Len(vector_store.section_to_chunks[t]) :
            LET position == vector_store.section_to_chunks[t][i]
            IN /\ position >= 0
               /\ position < Len(vector_store.chunks)
               /\ vector_store.chunks[position + 1].section_title = t

\* a title indexed by a second batch, after a reset dropped the first
\* batch's entries
C2_Witness ==
    \E t \in DOMAIN vector_store.section_to_chunks :
        /\ vector_store.section_to_chunks[t][1] >= 2
        /\ \E p \in 1..Len(vector_store.chunks) :
              /\ vector_store.chunks[p].section_title = t
              /\ p - 1 \notin Range(vector_store.section_to_chunks[t])

\* C3 (as claimed): with no call in flight, the backend holds exactly one
\* record per chunk of the chunk list, in the order the chunks were added.
C3_BackendMirrorsChunkList ==
    Quiescent => BackendIdSeq(vector_store) = ChunkIdSeq(vector_store)

\* C4 (as claimed): when add_documents returns after the embedding provider
\* failed to initialise or failed on the batch, documents, chunks, section
\* mapping and backend are what they were before the call.
C4_FailedIngestLeavesIndexUnchanged ==
    [][ \A h \in Handlers :
          (pc[h] # "idle" /\ pc'[h] = "idle" /\ last'.provider_failed)
          => /\ vector_store'.documents = committed.documents
             /\ vector_store'.chunks = committed.chunks
             /\ vector_store'.section_to_chunks = committed.section_to_chunks
             /\ vector_store'.vector_store = committed.vector_store ]_vars

\* C5 (as claimed): hierarchical_search returns at most k_sections sections
\* and at most k_sections * k_chunks chunks, for all k_sections, k_chunks >= 0.
C5_FanOutBounded ==
    last.op = "hierarchical_search" =>
        /\ Len(last.sections) <= last.k_sections
        /\ Len(last.chunks) <= last.k_sections * last.k_chunks

\* C6: a search on a store whose backend index does not exist (nothing was
\* ever embedded, or reset_embeddings has just run) returns no sections and
\* no chunks, raises nothing and makes no backend call.
C6_EmptyIndexSearchIsEmpty ==
    (last.op \in SearchOps /\ ~vector_store.vector_store.init) =>
        /\ last.sections = <<>>
        /\ last.chunks = <<>>
        /\ last.calls = 0
        /\ ~last.failed

\* a hierarchical search right after a reset that kept the chunks
C6_Witness ==
    /\ last.op = "hierarchical_search"
    /\ last.k_sections > 0
    /\ ~vector_store.vector_store.init
    /\ Len(vector_store.chunks) > 0
    /\ acked = {}

\* C7 (as claimed): what a search observes is a whole number of ingests:
\* every chunk passed to add_documents since the last reset is in the chunk
\* list and the section mapping exactly if it is in the backend.
C7_SearchNeverSeesPartialIngest ==
    last.op \in SearchOps =>
        /\ \A id \in acked \cup BackendIds(vector_store) :
              (id \in ChunkIds(vector_store)) = (id \in BackendIds(vector_store))
        /\ MappedIds(vector_store) = TitledBackendIds(vector_store)

C9_AckedChunksAreInBackend ==
    acked \subseteq BackendIds(vector_store)

\* C10: no step removes or alters a recorded document or chunk or lowers
\* total_chunks, and a file that is skipped or whose processing raises has
\* no document record and no chunk, in the batch handed to add_documents
\* and in the store.
C10_SkippedFilesLeaveNothing ==
    \A f \in Files : FileSkipped(f) =>
        /\ \A i \in 1..Len(vector_store.documents) : vector_store.documents[i].filename # f.filename
        /\ \A i \in 1..Len(vector_store.chunks) : vector_store.chunks[i].filename # f.filename
        /\ \A h \in Handlers :
              /\ \A i \in 1..Len(local[h].documents) : local[h].documents[i].filename # f.filename
              /\ \A i \in 1..Len(local[h].chunks) : local[h].chunks[i].filename # f.filename

C10_IngestOnlyAppends ==
    /\ IsPrefix(vector_store.documents, vector_store'.documents)
    /\ IsPrefix(vector_store.chunks, vector_store'.chunks)
    /\ Len(vector_store'.documents) >= Len(vector_store.documents)
    /\ get_document_summary(vector_store').total_chunks
          >= get_document_summary(vector_store).total_chunks

C10_IngestMonotone ==
    [](C10_SkippedFilesLeaveNothing) /\ [][C10_IngestOnlyAppends]_vars

\* add_documents is about to add a batch in which one file was skipped and
\* another gave chunks, to a store that already holds documents
C10_Witness ==
    \E h \in Handlers :
        /\ pc[h] = "extend_documents"
        /\ \E i \in 1..Len(local[h].files) : FileSkipped(local[h].files[i])
        /\ Len(local[h].chunks) > 0
        /\ Len(vector_store.chunks) > 0

\* C11: the batch process_multiple_pdfs hands on holds one document record
\* for every file of the request that was neither skipped nor raised, in
\* input order, each followed in the chunk list by exactly its own section
\* chunks; a file that failed costs the other files of the batch nothing,
\* and the upload is turned down for want of documents only when no file
\* of the request survived.
C11_FailureSkipsOnlyThatFile ==
    /\ (last.op = "upload" /\ last.status = 500) => KeptFiles(last.files) = <<>>
    /\ \A h \in Handlers : pc[h] = "extend_documents" =>
        LET kept == KeptFiles(local[h].files)
            documents == local[h].documents
            chunks == local[h].chunks
        IN /\ Len(documents) = Len(kept)
           /\ \A i \in 1..Len(documents) :
                 /\ documents[i].filename = kept[i].filename
                 /\ documents[i].chunk_count = SectionCount(kept[i])
                 /\ \A j \in 1..Len(documents) :
                       documents[i].id = documents[j].id => i = j
                 /\ \A c \in 1..documents[i].chunk_count :
                       /\ ChunkOffset(documents, i) + c <= Len(chunks)
                       /\ chunks[ChunkOffset(documents, i) + c].document_id = documents[i].id
                       /\ chunks[ChunkOffset(documents, i) + c].filename = kept[i].filename
           /\ Len(chunks) = ChunkOffset(documents, Len(documents) + 1)

\* a batch of two files whose first file raised and whose second gave chunks
C11_Witness ==
    \E h \in Handlers :
        /\ pc[h] = "extend_documents"
        /\ Len(local[h].files) = 2
        /\ local[h].files[1].status = "lx_error"
        /\ Len(local[h].documents) = 1
        /\ Len(local[h].chunks) = 2

\* C12 (as claimed): a search during which the backend failed raises to its
\* caller instead of returning a result, so that the caller can tell the
\* failure from a search that found nothing.
C12_SearchFailureIsExplicit ==
    (last.op \in SearchOps /\ last.failed) => last.raised

\* C13 (as claimed): a step that changes the configured API key leaves the
\* store without backend index, without section mapping and without an
\* embedding provider bound to the old key.
C13_KeyChangeResetsIndex ==
    [][ GOOGLE_API_KEY' # GOOGLE_API_KEY
        => /\ vector_store'.vector_store = NoFaiss
           /\ vector_store'.section_to_chunks = EmptyDict
           /\ vector_store'.embeddings = NoKey ]_vars

\* C14 (as claimed): whenever ask_question hands passages to the answer
\* provider, they are the chunks the two-stage hierarchical search returns
\* for the question on the store as it stands.
C14_AskUsesHierarchicalSearch ==
    (last.op = "ask" /\ last.asked) =>
        last.relevant_docs =
            hierarchical_search(vector_store, last.question, DefaultKSections,
                                last.top_k, FailFrom(MaxK + 2)).chunks

\* C15: nothing is deduplicated.  Document ids and chunk ids are pairwise
\* distinct, and once the uploads have returned a file uploaded n times has
\* n document records and n times its chunks in the chunk list, and every
\* section_to_chunks list has one position per chunk with that title
\* ingested since the last reset: a second upload of a document doubles
\* total_chunks and the lists the document contributes to.
C15_NothingDeduplicated ==
    /\ \A i, j \in 1..Len(vector_store.documents) :
          vector_store.documents[i].id = vector_store.documents[j].id => i = j
    /\ \A i, j \in 1..Len(vector_store.chunks) :
          vector_store.chunks[i].id = vector_store.chunks[j].id => i = j
    /\ Quiescent =>
          /\ \A f \in Files : ~FileSkipped(f) =>
                Cardinality(ChunksNamed(vector_store, f.filename))
                   = Cardinality(DocsNamed(vector_store, f.filename)) * SectionCount(f)
          /\ get_document_summary(vector_store).total_chunks
                = SumSeq([i \in 1..Len(vector_store.documents) |->
                             SectionCount(FileNamed(vector_store.documents[i].filename))])
          /\ \A t \in Titles :
                Len(DictGet(vector_store.section_to_chunks, t))
                   = Cardinality(IndexedSince(vector_store, t, acked))

\* ab.pdf was uploaded a second time, on its own, with no reset in between
C15_Witness ==
    /\ Quiescent
    /\ last.op = "upload"
    /\ last.documents = 1
    /\ Cardinality(DocsNamed(vector_store, "ab.pdf")) = 2
    /\ Len(vector_store.chunks) = 4
    /\ Len(DictGet(vector_store.section_to_chunks, "A")) = 2
    /\ Len(DictGet(vector_store.section_to_chunks, "B")) = 2

C17_ChunksKeepTheirPositions ==
    [][ \A i \in 1..Len(vector_store.chunks) :
          /\ i <= Len(vector_store'.chunks)
          /\ vector_store'.chunks[i] = vector_store.chunks[i] ]_vars

\* a reset has just run on a store that holds the chunks of several documents
C17_Witness ==
    /\ last.op = "reset"
    /\ Len(vector_store.documents) >= 2
    /\ Len(vector_store.chunks) >= 3
    /\ vector_store.section_to_chunks = EmptyDict

\* C18 (as claimed): with no upload in flight, every chunk of the chunk list
\* that has a section title has its position listed under that title in
\* section_to_chunks, also after a reset that kept the chunks.
C18_TitledChunksAreMapped ==
    Quiescent =>
        \A p \in 1..Len(vector_store.chunks) :
            Truthy(vector_store.chunks[p].section_title) =>
                (p - 1) \in Range(DictGet(vector_store.section_to_chunks,
                                         vector_store.chunks[p].section_title))

\* C19: a file with text but without section-header spans gives a document
\* record with chunk_count = 0 and no chunk, in the batch handed to
\* add_documents and in the store, and (with a key configured) an upload
\* containing such a file is never turned down, also when it is the only
\* file of the request.
C19_HeaderlessDocumentIsAccepted ==
    /\ \A f \in Files : Headerless(f) =>
          /\ ChunksNamed(vector_store, f.filename) = {}
          /\ \A i \in DocsNamed(vector_store, f.filename) :
                vector_store.documents[i].chunk_count = 0
    /\ \A h \in Handlers : pc[h] = "extend_documents" =>
          \A n \in 1..Len(local[h].files) : Headerless(local[h].files[n]) =>
              /\ \E i \in 1..Len(local[h].documents) :
                    /\ local[h].documents[i].filename = local[h].files[n].filename
                    /\ local[h].documents[i].chunk_count = 0
              /\ \A c \in 1..Len(local[h].chunks) :
                    local[h].chunks[c].filename # local[h].files[n].filename
    /\ (last.op = "upload" /\ last.status # 200 /\ is_api_key_configured(GOOGLE_API_KEY)) =>
          \A n \in 1..Len(last.files) : ~Headerless(last.files[n])

\* the upload of a single headerless file was answered 200 and its record
\* is in the store
C19_Witness ==
    /\ last.op = "upload"
    /\ last.status = 200
    /\ last.chunk_counts = <<0>>
    /\ last.chunks = 0
    /\ DocsNamed(vector_store, "flat.pdf") # {}

\* C20 (as claimed): an upload during which add_documents could not
\* initialise the embedding provider, or could not embed the batch, is not
\* answered with success.
C20_UnembeddedUploadIsNotSuccess ==
    (last.op = "upload" /\ last.provider_failed) => last.status # 200

\* C21 (as claimed): the chunk built for a header holds the trimmed text
\* from the header's end offset to the start offset of the next
\* section-header span in start-offset order (to the end of the text for the
\* last header), and its parent is the provider's parent attribute.  Only
\* the section_content part of the chunk's content is compared.
C21_ContentRunsToNextHeader ==
    \A h \in Processed :
        LET file == local[h].files[1]
            headers == HeadersInOrder(file)
            chunks == local[h].chunks
        IN /\ Len(chunks) = Len(headers)
           /\ \A c \in 1..Len(chunks) :
                 /\ chunks[c].content.section_content
                       = Strip(Slice(file.text, headers[c].end_pos,
                                     IF c < Len(headers) THEN headers[c + 1].start_pos
                                     ELSE Len(file.text)))
                 /\ chunks[c].parent_section = headers[c].parent

\* C22 (as claimed): the chunks of a document carry the indices 0..n-1, the
\* chunk of the c-th header in start-offset order carrying c - 1, whatever
\* other spans the provider emitted.
C22_ChunkIndexIsHeaderPosition ==
    \A h \in Processed :
        \A c \in 1..Len(local[h].chunks) : local[h].chunks[c].chunk_index = c - 1

\* C23: whatever order the provider emits the spans in, and whether or not
\* they overlap, the document is processed without an error and its chunks
\* are those of its section headers in non-decreasing order of start offset,
\* headers with the same start offset in provider order.
C23_ChunksFollowStartOffsets ==
    /\ last.op = "upload" => last.status = 200
    /\ \A h \in Processed :
          LET headers == HeadersInOrder(local[h].files[1])
              chunks == local[h].chunks
          IN /\ Len(local[h].documents) = 1
             /\ Len(chunks) = Len(headers)
             /\ \A c \in 1..Len(chunks) :
                   /\ chunks[c].source_grounding = headers[c].extraction_text
                   /\ chunks[c].section_title = headers[c].title
                   /\ c < Len(chunks) => headers[c].start_pos <= headers[c + 1].start_pos

\* three headers emitted out of order, two of them starting at the same
\* offset and overlapping the third
C23_Witness ==
    \E h \in Processed :
        LET spans == local[h].files[1].extractions
        IN /\ Len(spans) = 3
           /\ Len(local[h].chunks) = 3
           /\ spans[1].start_pos = spans[2].start_pos
           /\ spans[1].end_pos > spans[2].end_pos
           /\ spans[3].start_pos < spans[1].start_pos
           /\ spans[3].end_pos > spans[1].start_pos

\* C24 (as claimed): search_sections(query, k) returns the first
\* min(k, number available) distinct non-empty section titles of the
\* backend's top-20 results, each with the score of its first (best)
\* occurrence, in non-decreasing score order, for every k >= 0.
C24_SectionsAreFirstKDistinctTitles ==
    (last.op = "search_sections" /\ ~last.failed /\ vector_store.vector_store.init) =>
        LET results == Scanned(vector_store, last.query)
            first == FirstOccurrences(results)
        IN /\ Len(last.sections) = Min2(last.k_sections, Len(first))
           /\ \A n \in 1..Len(last.sections) :
                 /\ n <= Len(first)
                 /\ last.sections[n].section_title = results[first[n]].doc.section_title
                 /\ Truthy(last.sections[n].section_title)
                 /\ last.sections[n].score = results[first[n]].score
                 /\ \A i \in 1..Len(results) :
                       results[i].doc.section_title = last.sections[n].section_title
                          => last.sections[n].score <= results[i].score
                 /\ \A m \in 1..Len(last.sections) :
                       /\ m < n => last.sections[m].score <= last.sections[n].score
                       /\ last.sections[m].section_title = last.sections[n].section_title
                             => m = n

\* C25 (as claimed): search_chunks_in_section(title, query, k) returns the
\* first min(k, number available) records of the backend's top-20 results
\* whose section title is title, in ascending score order: never a record of
\* another section and never more than k records, for every k >= 0.
C25_ChunksAreFirstKOfSection ==
    (last.op = "search_chunks_in_section" /\ ~last.failed /\ last.calls = 1) =>
        LET results == Scanned(vector_store, last.query)
            own == Occurrences(results, last.title)
        IN /\ Len(last.chunks) <= last.k_chunks
           /\ Len(last.chunks) = Min2(last.k_chunks, Len(own))
           /\ \A n \in 1..Len(last.chunks) :
                 /\ last.chunks[n].section_title = last.title
                 /\ n <= Len(own)
                 /\ last.chunks[n].chunk_id = results[own[n]].doc.chunk_id
                 /\ n > 1 => last.chunks[n - 1].score <= last.chunks[n].score

\* C26: when section_to_chunks lists nothing under the requested title,
\* search_chunks_in_section returns the empty list without a backend call.
C26_UnknownSectionMakesNoCall ==
    (/\ last.op = "search_chunks_in_section"
     /\ \/ last.title \notin DOMAIN vector_store.section_to_chunks
        \/ vector_store.section_to_chunks[last.title] = <<>>) =>
        /\ last.chunks = <<>>
        /\ last.calls = 0
        /\ ~last.failed

\* the backend index exists and holds chunks, none of them under the
\* requested title
C26_Witness ==
    /\ last.op = "search_chunks_in_section"
    /\ last.k_chunks > 0
    /\ vector_store.vector_store.init
    /\ vector_store.vector_store.docs # <<>>
    /\ last.title \notin DOMAIN vector_store.section_to_chunks
    /\ DOMAIN vector_store.section_to_chunks # {}

\* C27: every chunk hierarchical_search returns belongs to one of the
\* sections it returns; the chunks of a better-ranked section come before
\* those of a worse-ranked one, and (when no backend call failed) the chunks
\* of each section are exactly what search_chunks_in_section returns for
\* that section, in its order.
C27_ChunksAreSectionMajor ==
    last.op = "hierarchical_search" =>
        /\ \A i \in 1..Len(last.chunks) :
              /\ SectionRank(last.sections, last.chunks[i].section_title) > 0
              /\ \A j \in 1..(i - 1) :
                    /\ SectionRank(last.sections, last.chunks[j].section_title)
                          <= SectionRank(last.sections, last.chunks[i].section_title)
                    /\ last.chunks[j].section_title = last.chunks[i].section_title
                          => last.chunks[j].score <= last.chunks[i].score
        /\ ~last.failed =>
              \A n \in 1..Len(last.sections) :
                  SelectSeq(last.chunks,
                            LAMBDA c : c.section_title = last.sections[n].section_title)
                     = search_chunks_in_section(vector_store, last.sections[n].section_title,
                                                last.query, last.k_chunks, TRUE).result

\* two sections were returned and the better-ranked one has the chunk with
\* the worse score
C27_Witness ==
    /\ last.op = "hierarchical_search"
    /\ ~last.failed
    /\ Len(last.sections) = 2
    /\ Len(last.chunks) >= 3
    /\ last.chunks[1].section_title # last.chunks[Len(last.chunks)].section_title
    /\ \E i, j \in 1..Len(last.chunks) : i < j /\ last.chunks[i].score > last.chunks[j].score

\* C28 (as claimed): get_conversation_context(n) renders the n most recent
\* turns (all of them when there are fewer), oldest first, and never more
\* than n, for every n >= 0; without a turn to render it returns the empty
\* string.
C28_ContextRendersLastNTurns ==
    last.op = "get_conversation_context" =>
        LET n == last.context_length
            rendered == Min2(n, Len(conversations))
        IN /\ Len(last.context) <= n
           /\ Len(last.context) = rendered
           /\ \A i \in 1..Len(last.context) :
                 /\ i <= rendered
                 /\ last.context[i].question
                       = conversations[Len(conversations) - rendered + i].question
                 /\ last.context[i].answer
                       = conversations[Len(conversations) - rendered + i].answer
           /\ rendered = 0 => last.context = NoContext

\* C29: the searches are read-only.  A step of search_sections,
\* search_chunks_in_section, hierarchical_search or flat search, with or
\* without a conversation context, leaves the document list, the chunk list,
\* the section mapping and the backend index as they were; a context only
\* changes the query text the flat search hands to the backend.
C29_SearchesAreReadOnly ==
    [][ (last = NoResult /\ last'.op \in SearchOps) =>
          /\ vector_store'.documents = vector_store.documents
          /\ vector_store'.chunks = vector_store.chunks
          /\ vector_store'.section_to_chunks = vector_store.section_to_chunks
          /\ vector_store'.vector_store = vector_store.vector_store
          /\ \A query \in Queries, k \in Ks, context \in Contexts :
                search(vector_store', query, k, context, FALSE, FailFrom(MaxK + 2))
                   = search(vector_store', EnhancedQuery(query, context), k, NoContext,
                            FALSE, FailFrom(MaxK + 2)) ]_vars

\* a flat search has just answered with two chunks of a store that holds
\* more than one document
C29_Witness ==
    /\ last.op = "search"
    /\ last.k_sections = 0
    /\ ~last.failed
    /\ Len(last.chunks) = 2
    /\ Len(vector_store.documents) >= 2
    /\ vector_store.vector_store.init

\* C30: reset_embeddings discards the embedding binding, the backend index,
\* the section-title set and the section mapping, and leaves the document
\* list and the chunk list, hence get_document_summary, as they were; on the
\* store it leaves, every search returns an empty result.
C30_ResetDiscardsIndexOnly ==
    [][ (last = NoResult /\ last'.op = "reset") =>
          /\ vector_store'.embeddings = NoKey
          /\ vector_store'.vector_store = NoFaiss
          /\ vector_store'.section_titles = {}
          /\ vector_store'.section_to_chunks = EmptyDict
          /\ vector_store'.documents = vector_store.documents
          /\ vector_store'.chunks = vector_store.chunks
          /\ get_document_summary(vector_store') = get_document_summary(vector_store)
          /\ \A query \in Queries, k \in Ks :
                /\ search_sections(vector_store', query, k, TRUE).result = <<>>
                /\ \A section_title \in Titles :
                      search_chunks_in_section(vector_store', section_title, query, k,
                                               TRUE).result = <<>>
                /\ \A k_sections \in Ks :
                      LET r == hierarchical_search(vector_store', query, k_sections, k,
                                                   FailFrom(MaxK + 2))
                      IN r.sections = <<>> /\ r.chunks = <<>>
                /\ \A context \in Contexts, hierarchical \in BOOLEAN :
                      search(vector_store', query, k, context, hierarchical,
                             FailFrom(MaxK + 2)).result = <<>> ]_vars

\* a reset has just run on a store that holds titled chunks, with no upload
\* in flight: the summary still counts the chunks, the index is gone
C30_Witness ==
    /\ last.op = "reset"
    /\ get_document_summary(vector_store).total_chunks >= 2
    /\ \E i \in 1..Len(vector_store.chunks) : vector_store.chunks[i].section_title # NoTitle
    /\ vector_store.vector_store = NoFaiss
    /\ \A h \in Handlers : pc[h] = "idle"

\* C31 (as claimed): ask_question tells "nothing found" from "failed".  An
\* ask that got past the two checks of the request and whose search returned
\* no passage is answered 404, and a 500 is answered only when the call of
\* the answer provider failed.
C31_NotFoundIsDistinctFromFailure ==
    last.op = "ask" =>
        /\ (last.status # 400 /\ last.relevant_docs = <<>>) => last.status = 404
        /\ last.status = 500 => last.detail = "answer provider error"

\* the position in the chunk list of a chunk of the batch being added
PositionOf(self, chunk) ==
    CHOOSE p \in 0..(Len(self.chunks) - 1) : self.chunks[p + 1].id = chunk.id

\* the positions of the chunks of a batch that carry `title`, in batch order
PositionsOfTitle(self, chunks, title) ==
    LET titled == SelectSeq(chunks, LAMBDA c : c.section_title = title)
    IN [i \in 1..Len(titled) |-> PositionOf(self, titled[i])]

\* C32: the section index loop appends the global position of every titled
\* chunk of the batch, in batch order, to the end of the list of its title,
\* creating the key when it is absent; it changes no other list and a chunk
\* without title changes nothing.  In every state each position is in at
\* most one list and every list is strictly increasing.
C32_RecordAppendsPositionToItsTitle ==
    [][ /\ \A h \in Handlers :
              (pc[h] = "section_index" /\ pc'[h] # "section_index") =>
                  /\ \A t \in Titles :
                        DictGet(vector_store'.section_to_chunks, t)
                           = DictGet(vector_store.section_to_chunks, t)
                                \o PositionsOfTitle(vector_store, local[h].chunks, t)
                  /\ DOMAIN vector_store'.section_to_chunks
                        = DOMAIN vector_store.section_to_chunks
                             \cup ({local[h].chunks[i].section_title :
                                       i \in 1..Len(local[h].chunks)} \ {NoTitle})
                  /\ vector_store'.chunks = vector_store.chunks
        /\ \A t \in DOMAIN vector_store'.section_to_chunks :
              LET list == vector_store'.section_to_chunks[t]
              IN /\ \A i \in 1..(Len(list) - 1) : list[i] < list[i + 1]
                 /\ \A u \in DOMAIN vector_store'.section_to_chunks \ {t} :
                       Range(list) \cap Range(vector_store'.section_to_chunks[u]) = {} ]_vars

\* a list that holds positions of two batches beside another list, in a
\* store in which a chunk without title was recorded as well
C32_Witness ==
    /\ \E t \in DOMAIN vector_store.section_to_chunks :
          /\ Len(vector_store.section_to_chunks[t]) >= 2
          /\ \E u \in DOMAIN vector_store.section_to_chunks : u # t
    /\ \E p \in 1..Len(vector_store.chunks) : vector_store.chunks[p].section_title = NoTitle
    /\ Len(vector_store.documents) >= 2
    /\ Quiescent

\* C33 (as claimed): every section title carried by a record of the backend
\* index is a key of section_to_chunks; so every section search_sections
\* returns for a query yields a chunk from search_chunks_in_section for the
\* same query when k_chunks >= 1, and hierarchical_search returns no section
\* without a chunk of it.
C33_ReturnedSectionsHaveChunks ==
    /\ \A i \in 1..Len(vector_store.vector_store.docs) :
          vector_store.vector_store.docs[i].section_title # NoTitle =>
              vector_store.vector_store.docs[i].section_title
                  \in DOMAIN vector_store.section_to_chunks
    /\ \A query \in Queries, k \in Ks, k_chunks \in 1..MaxK :
          LET sections == search_sections(vector_store, query, k, TRUE).result
          IN \A i \in 1..Len(sections) :
                search_chunks_in_section(vector_store, sections[i].section_title, query,
                                         k_chunks, TRUE).result # <<>>
    /\ last.op = "hierarchical_search" =>
          \A i \in 1..Len(last.sections) :
              \E j \in 1..Len(last.chunks) :
                  last.chunks[j].section_title = last.sections[i].section_title

\* C34: the conversation history never holds more than 100 entries.  Every
\* add_conversation puts the new entry last and keeps the entries before it
\* in their order, dropping exactly the oldest one when the history was
\* full; clear_history empties it.
C34_HistoryKeepsLastHundred ==
    [][ /\ Len(conversations') <= MaxConversations
        /\ (conversations' # conversations /\ last' = last) =>
              LET entry == conversations'[Len(conversations')]
              IN /\ conversations' # <<>>
                 /\ conversations' =
                       IF Len(conversations) < MaxConversations
                       THEN Append(conversations, entry)
                       ELSE Append(Tail(conversations), entry)
        /\ (last = NoResult /\ last'.op = "clear_history") => conversations' = <<>> ]_vars

\* the history is full and its oldest entries have been dropped
C34_Witness ==
    /\ Len(conversations) = MaxConversations
    /\ conversations[1].question = 3
    /\ conversations[MaxConversations].question = MaxConversations + 2

\* C35 (as claimed): an ask changes the conversation history only when it
\* succeeds.  An ask that found passages and got an answer from the provider
\* is answered 200 and appends exactly one entry, the question asked; an ask
\* that is rejected, finds nothing or fails in the answer provider leaves the
\* history as it was.
C35_OnlySuccessfulAskIsRecorded ==
    [][ (last = NoResult /\ last'.op = "ask") =>
          IF last'.asked /\ last'.detail # "answer provider error"
          THEN /\ last'.status = 200
               /\ Len(conversations') = Len(conversations) + 1
               /\ SubSeq(conversations', 1, Len(conversations)) = conversations
               /\ conversations'[Len(conversations')].question = last'.question
          ELSE conversations' = conversations ]_vars

\* C36: an upload that is turned down (no API key configured, no files, or
\* no document of the batch processed) never calls add_documents.  Such a
\* request leaves documents, chunks, section mapping and backend index as
\* they were and starts no handler; and add_documents is only ever entered
\* with a key configured, for a request with files, with a document.
C36_RejectedUploadNeverAddsDocuments ==
    [][ /\ (last = NoResult /\ last'.op = "upload" /\ last'.status # 200) =>
              /\ vector_store'.documents = vector_store.documents
              /\ vector_store'.chunks = vector_store.chunks
              /\ vector_store'.section_to_chunks = vector_store.section_to_chunks
              /\ vector_store'.vector_store = vector_store.vector_store
              /\ pc' = pc
        /\ \A h \in Handlers :
              (pc[h] = "idle" /\ pc'[h] = "extend_documents") =>
                  /\ GOOGLE_API_KEY # NoKey
                  /\ local'[h].files # <<>>
                  /\ local'[h].documents # <<>> ]_vars

\* a request whose files all failed has just been turned down by a store
\* that holds indexed documents
C36_Witness ==
    /\ last.op = "upload"
    /\ last.status = 500
    /\ last.files # <<>>
    /\ Len(vector_store.documents) >= 1
    /\ Len(vector_store.chunks) >= 2
    /\ vector_store.vector_store.init
    /\ vector_store.section_to_chunks # EmptyDict

\* C37: in every state section_titles is the set of keys of
\* section_to_chunks, and every key has a non-empty list of positions.
C37_TitlesAreTheMappingKeys ==
    /\ vector_store.section_titles = DOMAIN vector_store.section_to_chunks
    /\ \A t \in DOMAIN vector_store.section_to_chunks :
          vector_store.section_to_chunks[t] # <<>>

\* after a reset, a later upload has indexed both titles again while the
\* chunk list still holds titled chunks of before the reset
C37_Witness ==
    /\ Cardinality(vector_store.section_titles) = 2
    /\ \E p \in 1..Len(vector_store.chunks) :
          /\ vector_store.chunks[p].section_title # NoTitle
          /\ \A t \in DOMAIN vector_store.section_to_chunks :
                (p - 1) \notin Range(vector_store.section_to_chunks[t])

\* the entries of a history that match a query, most recent first
RECURSIVE MatchesNewestFirst(_, _)
MatchesNewestFirst(history, query) ==
    IF history = <<>> THEN <<>>
    ELSE LET conv == history[Len(history)]
             older == MatchesNewestFirst(SubSeq(history, 1, Len(history) - 1), query)
         IN IF \/ Contains(Lower(conv.question), Lower(query))
               \/ Contains(Lower(conv.answer), Lower(query))
            THEN <<conv>> \o older
            ELSE older

\* C38 (as claimed): search_conversations(query, limit) returns at most
\* limit entries for every limit >= 0: the most recent entries that contain
\* the query in question or answer, case ignored, most recent first; and it
\* leaves the history as it was.
C38_SearchReturnsNewestMatches ==
    [][ (last = NoResult /\ last'.op = "search_conversations") =>
          LET matches == MatchesNewestFirst(conversations, last'.query)
          IN /\ conversations' = conversations
             /\ Len(last'.results) <= last'.limit
             /\ last'.results = SubSeq(matches, 1, Min2(last'.limit, Len(matches))) ]_vars

====
